---------------------------- MODULE Spec2Model ----------------------------
(***************************************************************************)
(* A model of the chat route of lmarcelinoc/ai-chatbot:                    *)
(*   src/app/(chat)/api/chat/route.ts   getStreamContext, getModelForChat, *)
(*                                      POST, GET, DELETE                  *)
(*   src/lib/ai/providers.ts            providerSDKs, getProviderModel,    *)
(*                                      myProvider, getDynamicLanguageModel*)
(*   src/lib/ai/entitlements.ts         entitlementsByUserType             *)
(*   src/lib/db/seed-providers.ts       the persisted provider/model rows  *)
(***************************************************************************)
EXTENDS Integers, Sequences, FiniteSets, TLC

VARIABLES
    \* ---- the process environment and module-level state
    isTestEnvironment,   \* lib/constants isTestEnvironment, read at providers.ts:63
    staticFault,         \* what reading myProvider.languageModels does (providers.ts:127)
    badProviders,        \* provider SDKs whose constructor throws
    dbFault,             \* what the provider/model queries of route.ts:120,125 do
    providerSDKs,        \* providers.ts:39  slug -> SDK constructor
    \* ---- one call of the Model Resolver / Provider Registry
    resolveIn,           \* the arguments of the last getModelForChat call
    resolveOut,          \* its outcome
    lookupIn,            \* the arguments of the last getProviderModel call
    lookupOut,           \* its outcome
    \* ---- one validation of a request body (route.ts:146-153)
    json,                \* what request.json() returned
    parseOut,            \* what postRequestBodySchema.parse made of it
    \* ---- the resumable stream context (route.ts:50) and its configuration
    redisUrl,            \* process.env.REDIS_URL || process.env.UPSTASH_REDIS_REST_URL
    globalStreamContext, \* route.ts:50
    ctxChecks,           \* how often the configuration was read (route.ts:56-58)
    ctxConstructs,       \* how often createResumableStreamContext was called (route.ts:65)
    store,               \* the stream store: stream id -> its entry
    \* ---- persisted rows
    chats,               \* Chat rows, by chat id
    messages,            \* Message rows, in creation order
    streams,             \* Stream Records, in creation order
    priorCount,          \* user messages of the last 24 hours in chats not shown here
    \* ---- the requests
    reqs,                \* the requests received so far, each with its handler's locals
    now                  \* the wall clock, in ticks

resolverVars == <<resolveIn, resolveOut, lookupIn, lookupOut>>

schemaVars == <<json, parseOut>>

envVars == <<isTestEnvironment, staticFault, badProviders, dbFault, providerSDKs>>

ctxVars == <<redisUrl, globalStreamContext, ctxChecks, ctxConstructs>>

dbVars == <<chats, messages, streams, priorCount>>

vars == <<envVars, schemaVars, resolverVars, ctxVars, store, dbVars, reqs, now>>

----------------------------------------------------------------------------
(* Model handles.  A handle is what an SDK constructor returns for a        *)
(* provider-native model id; wrapLanguageModel marks it wrapped.            *)

Handle(provider, model) == [provider |-> provider, model |-> model, wrapped |-> FALSE]

wrapLanguageModel(h) == [h EXCEPT !.wrapped = TRUE]

NoHandle == [provider |-> "none", model |-> "none", wrapped |-> FALSE]

\* openai('gpt-4o'): the hard-coded default of providers.ts:54,60 and route.ts:142
DefaultHandle == Handle("openai", "gpt-4o")

\* outcomes of a call: a returned handle, or an exception
Return(h) == [tag |-> "return", handle |-> h]

Throw == [tag |-> "throw", handle |-> NoHandle]

\* The SDK entry points openai(id), xai(id), anthropic(id).  A constructor of
\* a provider in badProviders throws; openai('gpt-4o') was already evaluated
\* when providers.ts was loaded (line 75), so it is not among the failures.
Construct(slug, modelId) ==
    IF slug \in badProviders /\ Handle(slug, modelId) # DefaultHandle
    THEN Throw
    ELSE Return(Handle(slug, modelId))

----------------------------------------------------------------------------
(* Provider Registry: providers.ts:39-61                                    *)

SdkSlugs == {"openai", "xai", "anthropic"}

Slugs == SdkSlugs \cup {"mistral"}

NativeIds == {"gpt-4o", "o3-mini", "grok-2-1212", "claude-3.5-sonnet-20241022"}

getProviderModel_NoCatch(providerSlug, modelId) ==
    IF providerSlug \in providerSDKs
    THEN Construct(providerSlug, modelId)
    ELSE Return(DefaultHandle)

getProviderModel(providerSlug, modelId) ==
    IF providerSlug \in providerSDKs
    THEN LET r == Construct(providerSlug, modelId)
         IN  IF r.tag = "throw" THEN Return(DefaultHandle) ELSE r
    ELSE Return(DefaultHandle)

----------------------------------------------------------------------------
(* Static model table: providers.ts:63-111                                  *)

TestModel(name) == Handle("mock", name)

languageModels ==
    IF isTestEnvironment
    THEN [t \in {"chat-model", "chat-model-reasoning", "title-model", "artifact-model"}
            |-> TestModel(t)]
    ELSE
      "openai-gpt4o"                :> Handle("openai", "gpt-4o")
   @@ "openai-o3mini"               :> Handle("openai", "o3-mini")
   @@ "openai-reasoning"            :> wrapLanguageModel(Handle("openai", "gpt-4o"))
   @@ "xai-grok2"                   :> Handle("xai", "grok-2-1212")
   @@ "xai-grok2-vision"            :> Handle("xai", "grok-2-vision-1212")
   @@ "xai-grok3-mini"              :> wrapLanguageModel(Handle("xai", "grok-3-mini-beta"))
   @@ "anthropic-claude-3-5-sonnet" :> Handle("anthropic", "claude-3.5-sonnet-20241022")
   @@ "anthropic-claude-3-5-haiku"  :> Handle("anthropic", "claude-3.5-haiku-20241022")
   @@ "anthropic-claude-3-opus"     :> Handle("anthropic", "claude-3-opus-20240229")
   @@ "anthropic-claude-instant"    :> Handle("anthropic", "claude-instant-1.2")
   @@ "chat-model"                  :> Handle("openai", "gpt-4o")
   @@ "chat-model-reasoning"        :> wrapLanguageModel(Handle("openai", "gpt-4o"))
   @@ "title-model"                 :> Handle("openai", "gpt-3.5-turbo")
   @@ "artifact-model"              :> Handle("openai", "gpt-4o")

\* myProvider.languageModel(id): the provider's own lookup, which throws
\* NoSuchModelError for an id it does not hold
myProvider_languageModel(modelId) ==
    IF modelId \in DOMAIN languageModels
    THEN Return(languageModels[modelId])
    ELSE Throw

----------------------------------------------------------------------------
(* Model identifiers.  TLC has no string length, so the two string tests    *)
(* of the UUID heuristic read a table.                                      *)

UuidGrok2   == "3f2b8c1e-7a4d-4e5f-9b6a-1c2d3e4f5a6b"
UuidO3mini  == "8d9e0f1a-2b3c-4d5e-8f6a-7b8c9d0e1f2a"
UuidNoRow   == "00000000-0000-4000-8000-000000000000"

Uuids == {UuidGrok2, UuidO3mini, UuidNoRow}

EnumTags == {"chat-model", "chat-model-reasoning", "openai-gpt4o", "openai-o3mini",
             "openai-reasoning", "xai-grok2", "xai-grok2-vision", "xai-grok3-mini",
             "anthropic-claude-3-5-sonnet", "anthropic-claude-3-5-haiku",
             "anthropic-claude-3-opus", "anthropic-claude-instant"}

\* identifiers the resolver is exercised with: tags, UUIDs, an unrecognized
\* 5-character string, and a long dashed string that is no UUID
ResolveIds == {"openai-gpt4o", "chat-model-reasoning", "xai-grok3-mini",
               "anthropic-claude-3-5-sonnet", "title-model",
               UuidGrok2, UuidO3mini, UuidNoRow,
               "bogus", "not-a-uuid-but-long-and-dashed-id"}

StrLen(s) ==
    CASE s \in Uuids -> 36
      [] s = "not-a-uuid-but-long-and-dashed-id" -> 33
      [] s = "bogus" -> 5
      [] s = "openai-gpt4o" -> 12
      [] s = "openai-o3mini" -> 13
      [] s = "openai-reasoning" -> 16
      [] s = "xai-grok2" -> 9
      [] s = "xai-grok2-vision" -> 16
      [] s = "xai-grok3-mini" -> 14
      [] s = "anthropic-claude-3-5-sonnet" -> 27
      [] s = "anthropic-claude-3-5-haiku" -> 26
      [] s = "anthropic-claude-3-opus" -> 23
      [] s = "anthropic-claude-instant" -> 24
      [] s = "chat-model" -> 10
      [] s = "chat-model-reasoning" -> 20
      [] s = "title-model" -> 11
      [] s = "artifact-model" -> 14

HasDash(s) == s # "bogus"

\* modelId.includes('-') && modelId.length > 30   (providers.ts:139, route.ts:117)
LooksLikeUuid(modelId) == HasDash(modelId) /\ StrLen(modelId) > 30

----------------------------------------------------------------------------
(* Persisted provider/model rows: seed-providers.ts                         *)

ProviderRows ==
      "prov-openai" :> [slug |-> "openai"]
   @@ "prov-xai"    :> [slug |-> "xai"]

ProviderModelRows ==
      UuidGrok2  :> [providerId |-> "prov-xai",    modelId |-> "grok-2-1212"]
   @@ UuidO3mini :> [providerId |-> "prov-openai", modelId |-> "o3-mini"]

DbFaults == {"none", "queryThrows", "providerThrows", "providerMissing"}


----------------------------------------------------------------------------
(* Dynamic model loader: providers.ts:121-160                               *)

Nothing == [tag |-> "none", handle |-> NoHandle]

getDynamicLanguageModel(modelId) ==
    IF staticFault = "none" /\ modelId \in DOMAIN languageModels
    THEN \* lines 125-131: the predefined model
         Return(languageModels[modelId])
    ELSE \* a missing table, a miss, or a caught error (132-135): go on
    IF LooksLikeUuid(modelId)
    THEN \* lines 139-150: no database here, openai('gpt-4o') either way
         LET r == Construct("openai", "gpt-4o")
         IN  IF r.tag = "throw" THEN Construct("openai", "gpt-4o") ELSE r
    ELSE \* lines 153-159
         LET r == myProvider_languageModel("openai-gpt4o")
         IN  IF r.tag = "throw" THEN Construct("openai", "gpt-4o") ELSE r

----------------------------------------------------------------------------
(* Model Resolver: route.ts:87-143                                          *)

ContentTypes == {"image/png", "image/jpg", "image/jpeg", "application/pdf"}

\* the message as the resolver reads it: experimental_attachments is optional
Message(hasAttachments, items) == [hasAttachments |-> hasAttachments, items |-> items]

Messages ==
    { Message(FALSE, <<>>), Message(TRUE, <<>>),
      Message(TRUE, <<"image/png">>), Message(TRUE, <<"application/pdf">>),
      Message(TRUE, <<"image/jpeg", "application/pdf">>) }

\* route.ts:91-93
hasPDFAttachment(message) ==
    /\ message.hasAttachments
    /\ \E i \in DOMAIN message.items : message.items[i] = "application/pdf"

PdfModelId == "claude-3.5-sonnet-20241022"

\* route.ts:46 binds anthropic by a static import, so the test of line 100 passes
anthropicImported == TRUE

\* route.ts:100-102 without the try block around it
PdfStep_NoCatch(message) ==
    IF hasPDFAttachment(message)
    THEN IF anthropicImported
         THEN Construct("anthropic", PdfModelId)
         ELSE Construct("openai", "gpt-4o")
    ELSE Nothing

\* route.ts:96-106
PdfStep(message) ==
    IF hasPDFAttachment(message)
    THEN LET r == IF anthropicImported
                  THEN Construct("anthropic", PdfModelId)
                  ELSE Construct("openai", "gpt-4o")
         IN  IF r.tag = "throw" THEN Nothing ELSE r
    ELSE Nothing

\* route.ts:109-114
DynamicStep(modelId) ==
    LET r == getDynamicLanguageModel(modelId)
    IN  IF r.tag = "throw" THEN Nothing ELSE r

\* route.ts:117-138
DbStep(modelId) ==
    IF ~LooksLikeUuid(modelId) THEN Nothing
    ELSE IF dbFault = "queryThrows" THEN Nothing
    ELSE IF modelId \notin DOMAIN ProviderModelRows THEN Nothing
    ELSE LET model == ProviderModelRows[modelId]
         IN  IF dbFault = "providerThrows" THEN Nothing
             ELSE IF dbFault = "providerMissing"
                     \/ model.providerId \notin DOMAIN ProviderRows
                  THEN Nothing
                  ELSE getProviderModel(ProviderRows[model.providerId].slug,
                                        model.modelId)

\* the outcome of a resolution, with the steps it performed
Resolved(r, did) == [tag |-> r.tag, handle |-> r.handle, did |-> did]

\* the resolver with the dynamic loader consulted before the attachments
getModelForChat_DynamicFirst(modelId, message) ==
    LET dyn == DynamicStep(modelId)
        pdf == PdfStep(message)
    IN  IF dyn.tag # "none" THEN Resolved(dyn, <<"static">>)
        ELSE IF pdf.tag # "none" THEN Resolved(pdf, <<"static", "pdf">>)
        ELSE Resolved(Construct("openai", "gpt-4o"), <<"static", "default">>)

getModelForChat(modelId, message) ==
    LET pdf  == PdfStep(message)
        dyn  == DynamicStep(modelId)
        db   == DbStep(modelId)
        pre  == IF hasPDFAttachment(message) THEN <<"pdf">> ELSE <<>>
        dbd  == IF LooksLikeUuid(modelId) THEN <<"db">> ELSE <<>>
    IN  IF pdf.tag # "none" THEN Resolved(pdf, pre)
        ELSE IF dyn.tag # "none" THEN Resolved(dyn, pre \o <<"static">>)
        ELSE IF db.tag # "none" THEN Resolved(db, pre \o <<"static">> \o dbd)
        ELSE Resolved(Construct("openai", "gpt-4o"),
                      pre \o <<"static">> \o dbd \o <<"default">>)

\* the resolver and the registry before they are called
Idle == [tag |-> "idle", handle |-> NoHandle, did |-> <<>>]

NotCalled == [tag |-> "idle", handle |-> NoHandle]

----------------------------------------------------------------------------
(* Bounds of the model                                                      *)

\* requests received in one run
MaxRequests == 2

\* clock ticks per second: timestamps are finer than the seconds they are
\* compared in
TicksPerSecond == 2

\* segments of one streamed response
MaxSegments == 2

----------------------------------------------------------------------------
(* Users and entitlements: entitlements.ts:9-48                             *)

GuestMaxMessagesPerDay == 20

RegularMaxMessagesPerDay == 100

entitlementsByUserType ==
    [guest   |-> [maxMessagesPerDay |-> GuestMaxMessagesPerDay],
     regular |-> [maxMessagesPerDay |-> RegularMaxMessagesPerDay]]

Users == {"alice", "bob"}

\* session.user.type of each user (the auth module sets it)
UserType == [alice |-> "guest", bob |-> "regular"]

\* auth() resolved to no session
Anonymous == "anonymous"

Sessions == Users \cup {Anonymous}

ChatIds == {"chat-1"}

\* a request without the id / chatId query parameter
NoId == "none"

Visibilities == {"public", "private"}

----------------------------------------------------------------------------
(* Persisted rows and the queries on them (lib/db/queries)                  *)

NoChat == [exists |-> FALSE, userId |-> "nobody", visibility |-> "private", by |-> 0]

ChatRow(userId, visibility, r) ==
    [exists |-> TRUE, userId |-> userId, visibility |-> visibility, by |-> r]

\* ids are generated (generateUUID): the n-th id made for request r
MessageId(r, n) == <<r, n>>

NoMessageId == <<>>

\* a row is written with the id of the request's message (route.ts:233)
\* unless another id is given
MessageRow(chatId, role, r) ==
    [chatId |-> chatId, role |-> role, createdAt |-> now, by |-> r,
     id |-> MessageId(r, 0)]

NoMessage == [chatId |-> NoId, role |-> "none", createdAt |-> 0, by |-> 0,
              id |-> NoMessageId]

StreamRow(streamId, chatId) == [streamId |-> streamId, chatId |-> chatId]

getChatById(id) == chats[id]

getMessagesByChatId(id) == SelectSeq(messages, LAMBDA m : m.chatId = id)

getStreamIdsByChatId(chatId) == SelectSeq(streams, LAMBDA s : s.chatId = chatId)

\* user messages of the last 24 hours in the chats the user owns
getMessageCountByUserId(id) ==
    priorCount[id]
    + Cardinality({ i \in DOMAIN messages :
                       /\ messages[i].role = "user"
                       /\ chats[messages[i].chatId].exists
                       /\ chats[messages[i].chatId].userId = id })

\* deleteChatById: the chat goes with its messages and stream records
ChatsWithout(id) == [chats EXCEPT ![id] = NoChat]

MessagesWithout(id) == SelectSeq(messages, LAMBDA m : m.chatId # id)

StreamsWithout(id) == SelectSeq(streams, LAMBDA s : s.chatId # id)

----------------------------------------------------------------------------
(* Resumable Stream Context: route.ts:50-84                                 *)

\* the connection string: unset, a placeholder holding 'SSS', a string the
\* constructor rejects, or a usable one
RedisUrls == {"absent", "placeholder", "malformed", "valid"}

\* route.ts:58
UrlRejected == redisUrl \in {"absent", "placeholder"}

\* createResumableStreamContext (route.ts:65): throws on a string it cannot use
ConstructionSucceeds == redisUrl = "valid"

\* the singleton after the first call of a process
StreamContextAfterFirstCall ==
    IF UrlRejected THEN "null"
    ELSE IF ConstructionSucceeds THEN "context"
    ELSE "null"

\* what getStreamContext returns, which is also the singleton after the call
StreamContextAfter ==
    IF globalStreamContext # "null" THEN globalStreamContext
    ELSE IF UrlRejected THEN "null"
    ELSE IF ConstructionSucceeds THEN "context"
    ELSE "null"

\* a getStreamContext without the test of line 53: it constructs on every call
getStreamContext_NoGuard ==
    /\ globalStreamContext' = StreamContextAfter
    /\ ctxChecks' = ctxChecks + 1
    /\ ctxConstructs' = IF ~UrlRejected THEN ctxConstructs + 1 ELSE ctxConstructs
    /\ UNCHANGED redisUrl

getStreamContext ==
    /\ globalStreamContext' = StreamContextAfter
    /\ ctxChecks' = IF globalStreamContext = "null"
                    THEN ctxChecks + 1 ELSE ctxChecks
    /\ ctxConstructs' = IF globalStreamContext = "null" /\ ~UrlRejected
                        THEN ctxConstructs + 1 ELSE ctxConstructs
    /\ UNCHANGED redisUrl

\* entries of the stream store
\* of a stream the store keeps what its source has produced (sent segments)
NoEntry == [state |-> "absent", source |-> 0, sent |-> 0]

Entry(state, source) == [state |-> state, source |-> source, sent |-> 0]

\* the source of a stream made from the empty data stream of route.ts:402
EmptySource == 0

\* streamContext.resumableStream(streamId, factory): a new id is registered
\* with the factory's stream, an id already there is joined
Registered(streamId, source) ==
    IF store[streamId].state = "absent"
    THEN [store EXCEPT ![streamId] = Entry("active", source)]
    ELSE store

----------------------------------------------------------------------------
(* Requests.  A request record holds the locals of its handler; a GET       *)
(* record holds the chatId parameter and the session of its request from    *)
(* the start.                                                               *)

\* the arguments of a streamText call (route.ts:250-271)
NoError == "none"

NoCall == [selectedChatModel |-> "none", activeTools |-> {}, model |-> NoHandle]

NewRequest(kind) ==
    [kind |-> kind, pc |-> "begin", user |-> Anonymous, chatId |-> NoId,
     visibility |-> "private", status |-> 0, body |-> "none", log |-> <<>>,
     messageCount |-> 0, saw |-> NoChat, at |-> 0, sid |-> 0,
     msg |-> NoMessage, call |-> NoCall,
     \* the client's end of a streamed response: whether it is attached, and
     \* the segments the response has carried, in the order they came
     connected |-> TRUE, received |-> <<>>,
     \* response.messages of the finished model call
     output |-> <<>>,
     \* the error part sent to the client on the stream
     errorPart |-> NoError]

Respond(req, status, body) ==
    [req EXCEPT !.pc = "done", !.status = status, !.body = body]

Logged(req, what) == [req EXCEPT !.log = Append(@, what)]

\* the request being handled takes one step to next
Step(r, next) == reqs' = [reqs EXCEPT ![r] = next]

\* differenceInSeconds of date-fns: whole seconds, rounded towards zero
differenceInSeconds(later, earlier) ==
    IF later >= earlier
    THEN (later - earlier) \div TicksPerSecond
    ELSE -((earlier - later) \div TicksPerSecond)

GraceSeconds == 15

----------------------------------------------------------------------------
(* POST: route.ts:145-351                                                   *)

AllTools == {"getWeather", "createDocument", "updateDocument",
             "requestSuggestions", "braveSearch"}

\* the tool set with one reasoning tag forgotten
experimental_activeTools_TwoTags(selectedChatModel) ==
    IF \/ selectedChatModel = "chat-model-reasoning"
       \/ selectedChatModel = "openai-reasoning"
    THEN {}
    ELSE AllTools

\* route.ts:259-270
experimental_activeTools(selectedChatModel) ==
    IF \/ selectedChatModel = "chat-model-reasoning"
       \/ selectedChatModel = "openai-reasoning"
       \/ selectedChatModel = "xai-grok3-mini"
    THEN {}
    ELSE AllTools

\* selectedChatModel and message of the validated bodies: reasoning tags,
\* other tags and UUIDs, without and with a PDF attachment
PostModelIds == {"chat-model-reasoning", "openai-reasoning", "xai-grok3-mini",
                 "openai-gpt4o", UuidGrok2}

PostMessages == {Message(FALSE, <<>>), Message(TRUE, <<"application/pdf">>)}

\* the one body the interleaved requests carry
PlainModelIds == {"openai-gpt4o"}

PlainMessages == {Message(FALSE, <<>>)}

\* the quota test with the limit one too high
OverQuota_OffByOne(userType, messageCount) ==
    messageCount > entitlementsByUserType[userType].maxMessagesPerDay + 1

\* route.ts:184
OverQuota(userType, messageCount) ==
    messageCount > entitlementsByUserType[userType].maxMessagesPerDay

\* route.ts:146-191: the body is parsed, the session read, the messages of
\* the last 24 hours counted
POST_Begin ==
    /\ Len(reqs) < MaxRequests
    /\ \E valid \in BOOLEAN, user \in Sessions, id \in ChatIds :
          LET req == NewRequest("POST")
              parsed == [req EXCEPT !.chatId = id]
              authed == [parsed EXCEPT !.user = user]
              counted == [authed EXCEPT !.messageCount = getMessageCountByUserId(user)]
          IN  reqs' = Append(reqs,
                 IF ~valid THEN Respond(req, 400, "text")
                 ELSE IF user = Anonymous THEN Respond(parsed, 401, "text")
                 ELSE IF OverQuota(UserType[user], counted.messageCount)
                      THEN Respond(counted, 429, "text")
                 ELSE [counted EXCEPT !.pc = "getChat"])
    /\ UNCHANGED <<envVars, schemaVars, resolverVars, ctxVars, store, dbVars, now>>

\* the ownership test made for private chats only
POST_GetChat_PrivateOnly(r) ==
    /\ reqs[r].kind = "POST" /\ reqs[r].pc = "getChat"
    /\ LET req  == reqs[r]
           chat == getChatById(req.chatId)
           seen == [req EXCEPT !.saw = chat]
       IN  Step(r, IF ~chat.exists THEN [seen EXCEPT !.pc = "saveChat"]
                   ELSE IF chat.userId # req.user /\ chat.visibility = "private"
                        THEN Respond(seen, 403, "text")
                   ELSE [seen EXCEPT !.pc = "saveMessages"])
    /\ UNCHANGED <<envVars, schemaVars, resolverVars, ctxVars, store, dbVars, now>>

\* route.ts:193-210, up to the write
POST_GetChat(r) ==
    /\ reqs[r].kind = "POST" /\ reqs[r].pc = "getChat"
    /\ LET req  == reqs[r]
           chat == getChatById(req.chatId)
           seen == [req EXCEPT !.saw = chat]
       IN  Step(r, IF ~chat.exists THEN [seen EXCEPT !.pc = "saveChat"]
                   ELSE IF chat.userId # req.user THEN Respond(seen, 403, "text")
                   ELSE [seen EXCEPT !.pc = "saveMessages"])
    /\ UNCHANGED <<envVars, schemaVars, resolverVars, ctxVars, store, dbVars, now>>

\* the chat saved as private whatever visibility was requested
POST_SaveChat_PrivateOnly(r) ==
    /\ reqs[r].kind = "POST" /\ reqs[r].pc = "saveChat"
    /\ \E selectedVisibilityType \in Visibilities :
       LET req == [reqs[r] EXCEPT !.visibility = selectedVisibilityType]
       IN  IF chats[req.chatId].exists
           THEN /\ Step(r, Respond(reqs[r], 500, "text"))
                /\ UNCHANGED chats
           ELSE /\ chats' = [chats EXCEPT ![req.chatId] =
                                ChatRow(req.user, "private", r)]
                /\ Step(r, [Logged(req, "saveChat") EXCEPT !.pc = "saveMessages"])
    /\ UNCHANGED <<envVars, schemaVars, resolverVars, ctxVars, store, messages, streams,
                   priorCount, now>>

\* the insert replacing the row of a chat id that exists by now
POST_SaveChat_Upsert(r) ==
    /\ reqs[r].kind = "POST" /\ reqs[r].pc = "saveChat"
    /\ \E selectedVisibilityType \in Visibilities :
       LET req == [reqs[r] EXCEPT !.visibility = selectedVisibilityType]
       IN  /\ chats' = [chats EXCEPT ![req.chatId] =
                           ChatRow(req.user, req.visibility, r)]
           /\ Step(r, [Logged(req, "saveChat") EXCEPT !.pc = "saveMessages"])
    /\ UNCHANGED <<envVars, schemaVars, resolverVars, ctxVars, store, messages, streams,
                   priorCount, now>>

\* route.ts:196-205: the insert fails on a chat id that exists by now
POST_SaveChat(r) ==
    /\ reqs[r].kind = "POST" /\ reqs[r].pc = "saveChat"
    /\ \E selectedVisibilityType \in Visibilities :
       LET req == [reqs[r] EXCEPT !.visibility = selectedVisibilityType]
       IN  IF chats[req.chatId].exists
           THEN /\ Step(r, Respond(reqs[r], 500, "text"))
                /\ UNCHANGED chats
           ELSE /\ chats' = [chats EXCEPT ![req.chatId] =
                                ChatRow(req.user, req.visibility, r)]
                /\ Step(r, [Logged(req, "saveChat") EXCEPT !.pc = "saveMessages"])
    /\ UNCHANGED <<envVars, schemaVars, resolverVars, ctxVars, store, messages, streams,
                   priorCount, now>>

\* route.ts:212-240: the insert fails when the chat is gone
POST_SaveMessages(r) ==
    /\ reqs[r].kind = "POST" /\ reqs[r].pc = "saveMessages"
    /\ LET req == reqs[r]
       IN  IF ~chats[req.chatId].exists
           THEN /\ Step(r, Respond(req, 500, "text"))
                /\ UNCHANGED messages
           ELSE /\ messages' = Append(messages, MessageRow(req.chatId, "user", r))
                /\ Step(r, [Logged(req, "saveUserMessage") EXCEPT !.pc = "createStreamId"])
    /\ UNCHANGED <<envVars, schemaVars, resolverVars, ctxVars, store, chats, streams,
                   priorCount, now>>

\* route.ts:242-243: the stream id is the request's own fresh one
POST_CreateStreamId(r) ==
    /\ reqs[r].kind = "POST" /\ reqs[r].pc = "createStreamId"
    /\ LET req == reqs[r]
       IN  IF ~chats[req.chatId].exists
           THEN /\ Step(r, Respond(req, 500, "text"))
                /\ UNCHANGED streams
           ELSE /\ streams' = Append(streams, StreamRow(r, req.chatId))
                /\ Step(r, [Logged(req, "createStreamId")
                               EXCEPT !.pc = "stream", !.sid = r])
    /\ UNCHANGED <<envVars, schemaVars, resolverVars, ctxVars, store, chats, messages,
                   priorCount, now>>

\* route.ts:246-344: the model is resolved, streamText is called with it,
\* and the stream is answered, through the stream context when there is one
POST_Stream(r, modelIds, bodies) ==
    /\ reqs[r].kind = "POST" /\ reqs[r].pc = "stream"
    /\ \E selectedChatModel \in modelIds, message \in bodies :
          LET req   == reqs[r]
              model == getModelForChat(selectedChatModel, message)
          IN  IF model.tag = "throw"
              THEN /\ Step(r, Respond(req, 500, "text"))
                   /\ UNCHANGED <<ctxVars, store>>
              ELSE /\ getStreamContext
                   /\ store' = IF StreamContextAfter # "null"
                               THEN Registered(req.sid, r)
                               ELSE store
                   /\ Step(r, [Logged(Logged(req, "getModelForChat"), "streamText")
                                  EXCEPT !.pc = "streaming", !.status = 200,
                                         !.body = "stream",
                                         !.call =
                         [selectedChatModel |-> selectedChatModel,
                          activeTools |-> experimental_activeTools(selectedChatModel),
                          model |-> model.handle]])
    /\ UNCHANGED <<envVars, schemaVars, resolverVars, dbVars, now>>

\* response.messages of the round trip of request r: none, or an assistant
\* entry with a tool call, the tool's result and the closing assistant entry
ResponseMessages(r, hasAssistant) ==
    IF hasAssistant
    THEN << [role |-> "assistant", id |-> MessageId(r, 1)],
            [role |-> "tool",      id |-> MessageId(r, 2)],
            [role |-> "assistant", id |-> MessageId(r, 3)] >>
    ELSE <<>>

\* lib/utils getTrailingMessageId: the id of the last message, or null
getTrailingMessageId(msgs) ==
    IF Len(msgs) = 0 THEN NoMessageId ELSE msgs[Len(msgs)].id

\* the id of the first assistant entry of the output
AssistantId_Leading(output) ==
    LET assistants == SelectSeq(output, LAMBDA m : m.role = "assistant")
    IN  IF Len(assistants) = 0 THEN NoMessageId ELSE assistants[1].id

\* route.ts:286-290: the id of the last assistant entry of the output
AssistantId(output) ==
    getTrailingMessageId(SelectSeq(output, LAMBDA m : m.role = "assistant"))

\* onFinish with a save that succeeds whether or not the chat is still there
POST_OnFinish_NoReference(r) ==
    /\ reqs[r].kind = "POST" /\ reqs[r].pc = "streaming"
    /\ \E hasAssistant \in BOOLEAN :
          LET output      == ResponseMessages(r, hasAssistant)
              assistantId == AssistantId(output)
              req         == [reqs[r] EXCEPT !.output = output]
          IN  IF assistantId # NoMessageId
              THEN /\ messages' = Append(messages,
                                     [MessageRow(req.chatId, "assistant", r)
                                         EXCEPT !.id = assistantId])
                   /\ Step(r, [Logged(req, "saveAssistantMessage")
                                  EXCEPT !.pc = "done", !.call = NoCall])
              ELSE /\ UNCHANGED messages
                   /\ Step(r, [req EXCEPT !.pc = "done", !.call = NoCall])
    /\ store' = IF store[reqs[r].sid].source = r /\ store[reqs[r].sid].state = "active"
                THEN [store EXCEPT ![reqs[r].sid].state = "done"]
                ELSE store
    /\ UNCHANGED <<envVars, schemaVars, resolverVars, ctxVars, chats, streams, priorCount,
                   now>>

\* route.ts:283-318 and the end of the stream: onFinish saves the assistant
\* message when the response holds one and the save succeeds; then the
\* stream this request registered is done
POST_OnFinish(r) ==
    /\ reqs[r].kind = "POST" /\ reqs[r].pc = "streaming"
    /\ \E hasAssistant \in BOOLEAN :
          LET output      == ResponseMessages(r, hasAssistant)
              assistantId == AssistantId(output)
              req         == [reqs[r] EXCEPT !.output = output]
          IN  IF assistantId # NoMessageId /\ chats[req.chatId].exists
              THEN /\ messages' = Append(messages,
                                     [MessageRow(req.chatId, "assistant", r)
                                         EXCEPT !.id = assistantId])
                   /\ Step(r, [Logged(req, "saveAssistantMessage")
                                  EXCEPT !.pc = "done", !.call = NoCall])
              ELSE /\ UNCHANGED messages
                   /\ Step(r, [req EXCEPT !.pc = "done", !.call = NoCall])
    /\ store' = IF store[reqs[r].sid].source = r /\ store[reqs[r].sid].state = "active"
                THEN [store EXCEPT ![reqs[r].sid].state = "done"]
                ELSE store
    /\ UNCHANGED <<envVars, schemaVars, resolverVars, ctxVars, chats, streams, priorCount,
                   now>>

\* what can go wrong inside execute (route.ts:248-329): the model call, a
\* tool call, the merge into the data stream; each error carries its own text
ExecuteErrors ==
    { "model: 401 invalid api key", "tool: getWeather fetch failed",
      "merge: stream closed" }

\* an onError that forwards the text of the error
onError_Detail(error) == error

\* route.ts:331-333
onError(error) == "Oops, an error occurred!"

\* route.ts:247-334: an error inside execute ends the stream with one error
\* part, the text onError returns; onFinish does not run
POST_ExecuteError(r) ==
    /\ reqs[r].kind = "POST" /\ reqs[r].pc = "streaming"
    /\ \E error \in ExecuteErrors :
          Step(r, [reqs[r] EXCEPT !.errorPart = onError(error),
                                  !.pc = "done", !.call = NoCall])
    /\ store' = IF store[reqs[r].sid].source = r /\ store[reqs[r].sid].state = "active"
                THEN [store EXCEPT ![reqs[r].sid].state = "done"]
                ELSE store
    /\ UNCHANGED <<envVars, schemaVars, resolverVars, ctxVars, dbVars, now>>

----------------------------------------------------------------------------
(* GET: route.ts:353-446                                                    *)

\* the GET without the session test of lines 370-372
GET_Begin_NoSessionTest ==
    /\ Len(reqs) < MaxRequests
    /\ getStreamContext
    /\ \E chatId \in ChatIds \cup {NoId}, user \in Sessions :
          LET req    == [NewRequest("GET") EXCEPT !.at = now]
              parsed == [req EXCEPT !.chatId = chatId]
              authed == [parsed EXCEPT !.user = user]
          IN  reqs' = Append(reqs,
                 IF StreamContextAfter = "null" THEN Respond(authed, 204, "none")
                 ELSE IF chatId = NoId THEN Respond(authed, 400, "text")
                 ELSE [authed EXCEPT !.pc = "getChat"])
    /\ UNCHANGED <<envVars, schemaVars, resolverVars, store, dbVars, now>>

\* route.ts:354-372
GET_Begin ==
    /\ Len(reqs) < MaxRequests
    /\ getStreamContext
    /\ \E chatId \in ChatIds \cup {NoId}, user \in Sessions :
          LET req    == [NewRequest("GET") EXCEPT !.at = now]
              parsed == [req EXCEPT !.chatId = chatId]
              authed == [parsed EXCEPT !.user = user]
          IN  reqs' = Append(reqs,
                 IF StreamContextAfter = "null" THEN Respond(authed, 204, "none")
                 ELSE IF chatId = NoId THEN Respond(authed, 400, "text")
                 ELSE IF user = Anonymous THEN Respond(authed, 401, "text")
                 ELSE [authed EXCEPT !.pc = "getChat"])
    /\ UNCHANGED <<envVars, schemaVars, resolverVars, store, dbVars, now>>

\* the chat read without the visibility and ownership test
GET_GetChat_OwnerBlind(r) ==
    /\ reqs[r].kind = "GET" /\ reqs[r].pc = "getChat"
    /\ LET req  == reqs[r]
           chat == getChatById(req.chatId)
           seen == [req EXCEPT !.saw = chat]
       IN  Step(r, IF ~chat.exists THEN Respond(seen, 404, "text")
                   ELSE [seen EXCEPT !.pc = "getStreamIds"])
    /\ UNCHANGED <<envVars, schemaVars, resolverVars, ctxVars, store, dbVars, now>>

\* route.ts:374-388
GET_GetChat(r) ==
    /\ reqs[r].kind = "GET" /\ reqs[r].pc = "getChat"
    /\ LET req  == reqs[r]
           chat == getChatById(req.chatId)
           seen == [req EXCEPT !.saw = chat]
       IN  Step(r, IF ~chat.exists THEN Respond(seen, 404, "text")
                   ELSE IF chat.visibility = "private" /\ chat.userId # req.user
                        THEN Respond(seen, 403, "text")
                   ELSE [seen EXCEPT !.pc = "getStreamIds"])
    /\ UNCHANGED <<envVars, schemaVars, resolverVars, ctxVars, store, dbVars, now>>

\* the GET resuming with the oldest stream id instead of the latest
GET_GetStreamIds_First(r) ==
    /\ reqs[r].kind = "GET" /\ reqs[r].pc = "getStreamIds"
    /\ LET req       == reqs[r]
           streamIds == getStreamIdsByChatId(req.chatId)
       IN  Step(r, IF Len(streamIds) = 0 THEN Respond(req, 404, "text")
                   ELSE [req EXCEPT !.pc = "resume",
                                    !.sid = streamIds[1].streamId])
    /\ UNCHANGED <<envVars, schemaVars, resolverVars, ctxVars, store, dbVars, now>>

\* route.ts:390-400
GET_GetStreamIds(r) ==
    /\ reqs[r].kind = "GET" /\ reqs[r].pc = "getStreamIds"
    /\ LET req       == reqs[r]
           streamIds == getStreamIdsByChatId(req.chatId)
       IN  Step(r, IF Len(streamIds) = 0 THEN Respond(req, 404, "text")
                   ELSE [req EXCEPT !.pc = "resume",
                                    !.sid = streamIds[Len(streamIds)].streamId])
    /\ UNCHANGED <<envVars, schemaVars, resolverVars, ctxVars, store, dbVars, now>>

\* segments from to to of a stream, in order
Segments(from, to) == [i \in 1..(to - from + 1) |-> from + i - 1]

\* a GET that joins a live stream at its present end, without what the
\* source has produced so far
GET_Resume_NoReplay(r) ==
    /\ reqs[r].kind = "GET" /\ reqs[r].pc = "resume"
    /\ LET req   == reqs[r]
           entry == store[req.sid]
       IN  /\ store' = IF entry.state = "absent"
                       THEN [store EXCEPT ![req.sid] = Entry("done", EmptySource)]
                       ELSE store
           /\ Step(r, IF entry.state = "absent"
                         THEN Respond(Logged(req, "emptyStream"), 200, "empty")
                      ELSE IF entry.state = "active"
                         THEN [Respond(Logged(req, "resume"), 200, "resumed")
                                 EXCEPT !.received = <<>>]
                      ELSE [Logged(req, "noStream") EXCEPT !.pc = "getMessages"])
    /\ UNCHANGED <<envVars, schemaVars, resolverVars, ctxVars, dbVars, now>>

\* route.ts:402-415 and 445: an id the store does not know is registered
\* with the empty stream, a live one is joined, a finished one gives null.
\* No offset is passed to resumableStream, so a joined stream is delivered
\* from its first segment: what was produced so far, then the rest.
GET_Resume(r) ==
    /\ reqs[r].kind = "GET" /\ reqs[r].pc = "resume"
    /\ LET req   == reqs[r]
           entry == store[req.sid]
       IN  /\ store' = IF entry.state = "absent"
                       THEN [store EXCEPT ![req.sid] = Entry("done", EmptySource)]
                       ELSE store
           /\ Step(r, IF entry.state = "absent"
                         THEN Respond(Logged(req, "emptyStream"), 200, "empty")
                      ELSE IF entry.state = "active"
                         THEN [Respond(Logged(req, "resume"), 200, "resumed")
                                 EXCEPT !.received = Segments(1, entry.sent)]
                      ELSE [Logged(req, "noStream") EXCEPT !.pc = "getMessages"])
    /\ UNCHANGED <<envVars, schemaVars, resolverVars, ctxVars, dbVars, now>>

\* route.ts:416-442
GET_GetMessages(r) ==
    /\ reqs[r].kind = "GET" /\ reqs[r].pc = "getMessages"
    /\ LET req  == reqs[r]
           msgs == getMessagesByChatId(req.chatId)
           mostRecentMessage == msgs[Len(msgs)]
       IN  Step(r, IF Len(msgs) = 0 THEN Respond(req, 200, "empty")
                   ELSE IF mostRecentMessage.role # "assistant"
                        THEN Respond(req, 200, "empty")
                   ELSE IF differenceInSeconds(req.at, mostRecentMessage.createdAt)
                              > GraceSeconds
                        THEN Respond(req, 200, "empty")
                   ELSE Respond([req EXCEPT !.msg = mostRecentMessage],
                                200, "append-message"))
    /\ UNCHANGED <<envVars, schemaVars, resolverVars, ctxVars, store, dbVars, now>>

----------------------------------------------------------------------------
(* DELETE: route.ts:448-478                                                 *)

\* route.ts:449-460
DELETE_Begin ==
    /\ Len(reqs) < MaxRequests
    /\ \E id \in ChatIds \cup {NoId}, user \in Sessions :
          LET req    == NewRequest("DELETE")
              parsed == [req EXCEPT !.chatId = id]
              authed == [parsed EXCEPT !.user = user]
          IN  reqs' = Append(reqs,
                 IF id = NoId THEN Respond(req, 404, "text")
                 ELSE IF user = Anonymous THEN Respond(parsed, 401, "text")
                 ELSE [authed EXCEPT !.pc = "getChat"])
    /\ UNCHANGED <<envVars, schemaVars, resolverVars, ctxVars, store, dbVars, now>>

\* route.ts:463-467: chat.userId of a chat that is not there throws, which
\* the catch of line 472 answers
DELETE_GetChat(r) ==
    /\ reqs[r].kind = "DELETE" /\ reqs[r].pc = "getChat"
    /\ LET req  == reqs[r]
           chat == getChatById(req.chatId)
           seen == [req EXCEPT !.saw = chat]
       IN  Step(r, IF ~chat.exists THEN Respond(seen, 500, "text")
                   ELSE IF chat.userId # req.user THEN Respond(seen, 403, "text")
                   ELSE [seen EXCEPT !.pc = "deleteChat"])
    /\ UNCHANGED <<envVars, schemaVars, resolverVars, ctxVars, store, dbVars, now>>

\* route.ts:469-471
DELETE_DeleteChat(r) ==
    /\ reqs[r].kind = "DELETE" /\ reqs[r].pc = "deleteChat"
    /\ LET req == reqs[r]
       IN  IF chats[req.chatId].exists
           THEN /\ chats' = ChatsWithout(req.chatId)
                /\ messages' = MessagesWithout(req.chatId)
                /\ streams' = StreamsWithout(req.chatId)
                /\ Step(r, Respond(Logged(req, "deleteChat"), 200, "json"))
           ELSE /\ UNCHANGED <<chats, messages, streams>>
                /\ Step(r, Respond(req, 500, "text"))
    /\ UNCHANGED <<envVars, schemaVars, resolverVars, ctxVars, store, priorCount, now>>

----------------------------------------------------------------------------
(* Request-body validation: src/unnamed/part_000 and route.ts:146-153.      *)
(* A string that is only measured is kept as its length.                    *)

MaxTextLength == 2000

Str(n) == [length |-> n]

\* z.string().min(lo).max(hi)
StringMinMax(s, lo, hi) == s.length >= lo /\ s.length <= hi

\* z.string().uuid(), on the identifiers used here
IsUuid(s) == s \in Uuids

GoodUrl == "https://files.example.com/a.png"

\* z.string().url(), on the urls used here
IsUrl(s) == s = GoodUrl

IsoDate == "2024-05-01T10:00:00.000Z"

InvalidDate == [valid |-> FALSE, iso |-> "Invalid Date"]

\* z.coerce.date(): new Date(input), refused when the Date is invalid
coerceDate(input) ==
    IF input = IsoDate THEN [valid |-> TRUE, iso |-> IsoDate] ELSE InvalidDate

\* part_000:3-6
textPartSchema(part) ==
    /\ StringMinMax(part.text, 1, MaxTextLength)
    /\ part.type \in {"text"}

\* the attachment schema without the lower bound on the name
attachmentSchema_AnyName(a) ==
    /\ IsUrl(a.url)
    /\ StringMinMax(a.name, 0, MaxTextLength)
    /\ a.contentType \in ContentTypes

\* part_000:18-22
attachmentSchema(a) ==
    /\ IsUrl(a.url)
    /\ StringMinMax(a.name, 1, MaxTextLength)
    /\ a.contentType \in ContentTypes

\* part_000:10-24
messageSchema(m) ==
    /\ IsUuid(m.id)
    /\ coerceDate(m.createdAt).valid
    /\ m.role \in {"user"}
    /\ StringMinMax(m.content, 1, MaxTextLength)
    /\ \A i \in DOMAIN m.parts : textPartSchema(m.parts[i])
    /\ m.hasAttachments =>
          \A i \in DOMAIN m.experimental_attachments :
             attachmentSchema(m.experimental_attachments[i])

\* part_000:8-49
postRequestBodySchema(body) ==
    /\ IsUuid(body.id)
    /\ messageSchema(body.message)
    /\ \/ body.selectedChatModel \in EnumTags
       \/ IsUuid(body.selectedChatModel)
    /\ body.selectedVisibilityType \in Visibilities

\* the parts and the attachments the bodies are built from
TextPart(type, n) == [type |-> type, text |-> Str(n)]

PartArrays ==
    { <<>>,
      << TextPart("text", 1) >>,
      << TextPart("text", 0) >>,
      << TextPart("text", MaxTextLength + 1) >>,
      << TextPart("image", 1) >>,
      << TextPart("text", MaxTextLength), TextPart("text", 1) >>,
      << TextPart("text", 1), TextPart("text", 0) >> }

Attachment(url, n, contentType) ==
    [url |-> url, name |-> Str(n), contentType |-> contentType]

AttachmentArrays ==
    { <<>>,
      << Attachment(GoodUrl, 1, "image/png") >>,
      << Attachment(GoodUrl, 1, "text/html") >>,
      << Attachment(GoodUrl, 0, "application/pdf") >>,
      << Attachment(GoodUrl, MaxTextLength + 1, "image/jpeg") >>,
      << Attachment("a.png", 1, "image/jpg") >>,
      << Attachment(GoodUrl, MaxTextLength, "image/jpeg"),
         Attachment(GoodUrl, 1, "application/pdf") >>,
      << Attachment(GoodUrl, 1, "image/png"),
         Attachment(GoodUrl, 1, "image/gif") >> }

\* the bodies request.json() may return
Bodies ==
    { [id |-> id,
       message |-> [id |-> mid, createdAt |-> at, role |-> role,
                    content |-> Str(len), parts |-> parts,
                    hasAttachments |-> has, experimental_attachments |-> atts],
       selectedChatModel |-> model,
       selectedVisibilityType |-> vis] :
         id \in {UuidNoRow, "chat-1"},
         mid \in {UuidNoRow, "msg-1"},
         at \in {IsoDate, "yesterday-ish"},
         role \in {"user", "assistant"},
         len \in {0, 1, MaxTextLength, MaxTextLength + 1},
         parts \in PartArrays,
         has \in BOOLEAN,
         atts \in AttachmentArrays,
         model \in {"openai-gpt4o", UuidGrok2, "bogus",
                    "not-a-uuid-but-long-and-dashed-id"},
         vis \in {"public", "private", "unlisted"} }

NotParsed == [tag |-> "none"]

\* parse returns the body with createdAt made a Date
Parsed(body) ==
    [tag |-> "parsed",
     requestBody |-> [body EXCEPT !.message.createdAt = coerceDate(@)]]

Invalid400 == [tag |-> "response", status |-> 400, text |-> "Invalid request body"]

\* route.ts:146-153
POST_Parse ==
    /\ parseOut = NotParsed
    /\ parseOut' = IF postRequestBodySchema(json) THEN Parsed(json) ELSE Invalid400
    /\ UNCHANGED <<json, envVars, resolverVars, ctxVars, store, dbVars, reqs, now>>

InitSchemaIdle ==
    /\ json = [id |-> UuidNoRow,
               message |-> [id |-> UuidNoRow, createdAt |-> IsoDate, role |-> "user",
                            content |-> Str(1), parts |-> <<>>,
                            hasAttachments |-> FALSE,
                            experimental_attachments |-> <<>>],
               selectedChatModel |-> "openai-gpt4o",
               selectedVisibilityType |-> "private"]
    /\ parseOut = NotParsed

----------------------------------------------------------------------------
(* The route as a whole                                                     *)

\* message counts the users may have reached before: none, or the limit
PriorCounts ==
    { [u \in Users |-> 0],
      [u \in Users |-> entitlementsByUserType[UserType[u]].maxMessagesPerDay] }

\* the resolver's environment without faults
InitEnvSound ==
    /\ isTestEnvironment = FALSE
    /\ staticFault = "none"
    /\ badProviders = {}
    /\ dbFault = "none"
    /\ providerSDKs = SdkSlugs

InitResolverIdle ==
    /\ resolveIn = [modelId |-> "bogus", message |-> Message(FALSE, <<>>)]
    /\ resolveOut = Idle
    /\ lookupIn = [providerSlug |-> "openai", modelId |-> "gpt-4o"]
    /\ lookupOut = NotCalled

InitRoute ==
    /\ globalStreamContext = "null"
    /\ ctxChecks = 0
    /\ ctxConstructs = 0
    /\ store = [s \in 0..(MaxRequests + 1) |-> NoEntry]
    /\ chats = [c \in ChatIds |-> NoChat]
    /\ messages = <<>>
    /\ streams = <<>>
    /\ reqs = <<>>
    /\ now = 0

\* the process starts with its configuration fixed; users who start at their
\* limit are followed with a usable connection string only
Init ==
    /\ InitEnvSound
    /\ InitResolverIdle
    /\ InitSchemaIdle
    /\ InitRoute
    /\ redisUrl \in RedisUrls
    /\ priorCount \in PriorCounts
    /\ redisUrl # "valid" => priorCount = [u \in Users |-> 0]

Next ==
    \/ POST_Begin
    \/ GET_Begin
    \/ DELETE_Begin
    \/ \E r \in DOMAIN reqs : POST_GetChat(r)
    \/ \E r \in DOMAIN reqs : POST_SaveChat(r)
    \/ \E r \in DOMAIN reqs : POST_SaveMessages(r)
    \/ \E r \in DOMAIN reqs : POST_CreateStreamId(r)
    \/ \E r \in DOMAIN reqs : POST_Stream(r, PlainModelIds, PlainMessages)
    \/ \E r \in DOMAIN reqs : POST_OnFinish(r)
    \/ \E r \in DOMAIN reqs : GET_GetChat(r)
    \/ \E r \in DOMAIN reqs : GET_GetStreamIds(r)
    \/ \E r \in DOMAIN reqs : GET_Resume(r)
    \/ \E r \in DOMAIN reqs : GET_GetMessages(r)
    \/ \E r \in DOMAIN reqs : DELETE_GetChat(r)
    \/ \E r \in DOMAIN reqs : DELETE_DeleteChat(r)

Spec == Init /\ [][Next]_vars

----------------------------------------------------------------------------
(* The route serving one request at a time, with every kind of body and     *)
(* with time passing                                                        *)

\* no handler is between the arrival of its request and its response
Quiet == \A r \in DOMAIN reqs : reqs[r].pc \in {"streaming", "done"}

\* and no response is still streaming
Idling == \A r \in DOMAIN reqs : reqs[r].pc = "done"

\* the instants the clock is read at: the start, the end of the grace
\* window, a tick after it, and the full second after it
Instants ==
    { 0,
      GraceSeconds * TicksPerSecond,
      GraceSeconds * TicksPerSecond + 1,
      (GraceSeconds + 1) * TicksPerSecond }

\* time passes between requests
Tick ==
    /\ Idling
    /\ \E t \in Instants :
          /\ t > now
          /\ now' = t
    /\ UNCHANGED <<envVars, schemaVars, resolverVars, ctxVars, store, dbVars, reqs>>

NextSequential ==
    \/ Tick
    \/ Idling /\ POST_Begin
    \/ Quiet /\ GET_Begin
    \/ Idling /\ DELETE_Begin
    \/ \E r \in DOMAIN reqs : POST_GetChat(r)
    \/ \E r \in DOMAIN reqs : POST_SaveChat(r)
    \/ \E r \in DOMAIN reqs : POST_SaveMessages(r)
    \/ \E r \in DOMAIN reqs : POST_CreateStreamId(r)
    \/ \E r \in DOMAIN reqs : POST_Stream(r, PostModelIds, PostMessages)
    \/ \E r \in DOMAIN reqs : POST_OnFinish(r)
    \/ \E r \in DOMAIN reqs : GET_GetChat(r)
    \/ \E r \in DOMAIN reqs : GET_GetStreamIds(r)
    \/ \E r \in DOMAIN reqs : GET_Resume(r)
    \/ \E r \in DOMAIN reqs : GET_GetMessages(r)
    \/ \E r \in DOMAIN reqs : DELETE_GetChat(r)
    \/ \E r \in DOMAIN reqs : DELETE_DeleteChat(r)

SpecSequential == Init /\ [][NextSequential]_vars

----------------------------------------------------------------------------
(* The route in a process that has served a POST before: alice's chat       *)
(* exists with its two messages and the stream record of that POST, whose   *)
(* stream has ended                                                         *)

\* the stream id of the earlier POST
EarlierStream == MaxRequests + 1

InitHistory ==
    /\ InitEnvSound
    /\ InitResolverIdle
    /\ InitSchemaIdle
    /\ redisUrl \in RedisUrls
    /\ globalStreamContext = StreamContextAfterFirstCall
    /\ ctxChecks = 1
    /\ ctxConstructs = IF UrlRejected THEN 0 ELSE 1
    /\ store = [s \in 0..(MaxRequests + 1) |->
                  IF s = EarlierStream /\ ConstructionSucceeds /\ ~UrlRejected
                  THEN Entry("done", EarlierStream)
                  ELSE NoEntry]
    /\ \E visibility \in Visibilities :
          chats = [c \in ChatIds |-> ChatRow("alice", visibility, 0)]
    /\ messages = << [chatId |-> "chat-1", role |-> "user", createdAt |-> 0, by |-> 0,
                      id |-> MessageId(0, 0)],
                     [chatId |-> "chat-1", role |-> "assistant", createdAt |-> 0, by |-> 0,
                      id |-> MessageId(0, 3)] >>
    /\ streams = << StreamRow(EarlierStream, "chat-1") >>
    /\ priorCount = [u \in Users |-> 0]
    /\ reqs = <<>>
    /\ now = 0

SpecHistory == InitHistory /\ [][Next]_vars

----------------------------------------------------------------------------
(* The route with the segments of a streamed response followed one by one,  *)
(* and a client that loses its connection and reconnects with GET           *)

\* the requests whose response is attached to the stream of POST r
Attached(r, q) ==
    \/ q = r
    \/ /\ reqs[q].kind = "GET"
       /\ reqs[q].body = "resumed"
       /\ reqs[q].sid = reqs[r].sid

\* route.ts:325-329: the source of POST r produces its next segment, which
\* the store keeps and every attached client receives; consumeStream keeps
\* the source running when its own client has gone
StreamSegment(r) ==
    /\ reqs[r].kind = "POST" /\ reqs[r].pc = "streaming"
    /\ store[reqs[r].sid].state = "active"
    /\ store[reqs[r].sid].source = r
    /\ store[reqs[r].sid].sent < MaxSegments
    /\ store' = [store EXCEPT ![reqs[r].sid].sent = @ + 1]
    /\ reqs' = [q \in DOMAIN reqs |->
                  IF Attached(r, q) /\ reqs[q].connected
                  THEN [reqs[q] EXCEPT
                          !.received = Append(@, store[reqs[r].sid].sent + 1)]
                  ELSE reqs[q]]
    /\ UNCHANGED <<envVars, schemaVars, resolverVars, ctxVars, dbVars, now>>

\* the client of a streamed response goes away
ClientDisconnects(q) ==
    /\ reqs[q].connected
    /\ \/ reqs[q].kind = "POST" /\ reqs[q].pc = "streaming"
       \/ reqs[q].kind = "GET" /\ reqs[q].body = "resumed"
    /\ Step(q, [reqs[q] EXCEPT !.connected = FALSE])
    /\ UNCHANGED <<envVars, schemaVars, resolverVars, ctxVars, store, dbVars, now>>

\* no client is attached to a response that is still streaming
NoClientAttached ==
    \A r \in DOMAIN reqs : reqs[r].pc = "streaming" => ~reqs[r].connected

\* the source of POST r has produced its last segment
SourceEnded(r) ==
    store[reqs[r].sid].source = r => store[reqs[r].sid].sent = MaxSegments

InitResume ==
    /\ InitEnvSound
    /\ InitResolverIdle
    /\ InitSchemaIdle
    /\ InitRoute
    /\ redisUrl = "valid"
    /\ priorCount = [u \in Users |-> 0]

NextResume ==
    \/ Idling /\ POST_Begin
    \/ Quiet /\ NoClientAttached /\ GET_Begin
    \/ \E r \in DOMAIN reqs : POST_GetChat(r)
    \/ \E r \in DOMAIN reqs : POST_SaveChat(r)
    \/ \E r \in DOMAIN reqs : POST_SaveMessages(r)
    \/ \E r \in DOMAIN reqs : POST_CreateStreamId(r)
    \/ \E r \in DOMAIN reqs : POST_Stream(r, PlainModelIds, PlainMessages)
    \/ \E r \in DOMAIN reqs : StreamSegment(r)
    \/ \E r \in DOMAIN reqs : ClientDisconnects(r)
    \/ \E r \in DOMAIN reqs : SourceEnded(r) /\ POST_OnFinish(r)
    \/ \E r \in DOMAIN reqs : GET_GetChat(r)
    \/ \E r \in DOMAIN reqs : GET_GetStreamIds(r)
    \/ \E r \in DOMAIN reqs : GET_Resume(r)
    \/ \E r \in DOMAIN reqs : GET_GetMessages(r)

SpecResume == InitResume /\ [][NextResume]_vars

----------------------------------------------------------------------------
(* The route with streams that may fail: interleaved POST and DELETE        *)
(* requests, each stream ending in onFinish or in an error inside execute   *)

\* resumable streams enabled or disabled, nobody near the limit
InitStream ==
    /\ InitEnvSound
    /\ InitResolverIdle
    /\ InitSchemaIdle
    /\ InitRoute
    /\ redisUrl \in {"absent", "valid"}
    /\ priorCount = [u \in Users |-> 0]

NextStream ==
    \/ POST_Begin
    \/ DELETE_Begin
    \/ \E r \in DOMAIN reqs : POST_GetChat(r)
    \/ \E r \in DOMAIN reqs : POST_SaveChat(r)
    \/ \E r \in DOMAIN reqs : POST_SaveMessages(r)
    \/ \E r \in DOMAIN reqs : POST_CreateStreamId(r)
    \/ \E r \in DOMAIN reqs : POST_Stream(r, PlainModelIds, PlainMessages)
    \/ \E r \in DOMAIN reqs : POST_OnFinish(r)
    \/ \E r \in DOMAIN reqs : POST_ExecuteError(r)
    \/ \E r \in DOMAIN reqs : DELETE_GetChat(r)
    \/ \E r \in DOMAIN reqs : DELETE_DeleteChat(r)

SpecStream == InitStream /\ [][NextStream]_vars

----------------------------------------------------------------------------
(* Concurrent POST requests only: no chat is ever deleted                   *)

NextRace ==
    \/ POST_Begin
    \/ \E r \in DOMAIN reqs : POST_GetChat(r)
    \/ \E r \in DOMAIN reqs : POST_SaveChat(r)
    \/ \E r \in DOMAIN reqs : POST_SaveMessages(r)
    \/ \E r \in DOMAIN reqs : POST_CreateStreamId(r)
    \/ \E r \in DOMAIN reqs : POST_Stream(r, PlainModelIds, PlainMessages)
    \/ \E r \in DOMAIN reqs : POST_OnFinish(r)
    \/ \E r \in DOMAIN reqs : POST_ExecuteError(r)

SpecRace == InitStream /\ [][NextRace]_vars

----------------------------------------------------------------------------
(* The validation of one request body on its own                            *)

InitSchema ==
    /\ InitEnvSound
    /\ InitResolverIdle
    /\ InitRoute
    /\ redisUrl = "valid"
    /\ priorCount = [u \in Users |-> 0]
    /\ json \in Bodies
    /\ \A i \in DOMAIN json.message.experimental_attachments : json.message.hasAttachments
    /\ parseOut = NotParsed

NextSchema == POST_Parse

SpecSchema == InitSchema /\ [][NextSchema]_vars

----------------------------------------------------------------------------
(* The resolver and the registry called on their own                        *)

InitEnv ==
    /\ isTestEnvironment \in BOOLEAN
    /\ staticFault \in {"none", "absent", "throws"}
    /\ badProviders \in SUBSET SdkSlugs
    /\ dbFault \in DbFaults
    /\ providerSDKs = SdkSlugs

InitResolver ==
    /\ InitEnv
    /\ InitResolverIdle
    /\ InitSchemaIdle
    /\ InitRoute
    /\ redisUrl = "valid"
    /\ priorCount = [u \in Users |-> 0]

CallGetModelForChat ==
    /\ resolveOut = Idle
    /\ \E modelId \in ResolveIds, message \in Messages :
          /\ resolveIn' = [modelId |-> modelId, message |-> message]
          /\ resolveOut' = getModelForChat(modelId, message)
    /\ UNCHANGED <<envVars, schemaVars, lookupIn, lookupOut, ctxVars, store, dbVars, reqs, now>>

CallGetProviderModel ==
    /\ lookupOut = NotCalled
    /\ \E providerSlug \in Slugs, modelId \in NativeIds :
          /\ lookupIn' = [providerSlug |-> providerSlug, modelId |-> modelId]
          /\ lookupOut' = getProviderModel(providerSlug, modelId)
    /\ UNCHANGED <<envVars, schemaVars, resolveIn, resolveOut, ctxVars, store, dbVars, reqs, now>>

NextResolver == CallGetModelForChat \/ CallGetProviderModel

SpecResolver == InitResolver /\ [][NextResolver]_vars


----------------------------------------------------------------------------
(* Properties of the Model Resolver and the Provider Registry, under        *)
(* SpecResolver                                                             *)

\* the faults a resolution may meet: the static table missing or throwing,
\* a provider constructor throwing, a database query failing
SomeFault ==
    \/ staticFault # "none"
    \/ badProviders # {}
    \/ dbFault # "none"

\* C1: getModelForChat never propagates an error: for every model identifier
\* and message, and whatever the static lookup, the database query and the
\* provider lookup do, a call that has completed has returned a model handle.
C1_NeverPropagates ==
    /\ resolveOut.tag # "throw"
    /\ resolveOut # Idle =>
          /\ resolveOut.tag = "return"
          /\ resolveOut.handle # NoHandle

\* a call that returned although the static table threw, the document
\* provider's constructor threw and the database was failing
C1_Witness ==
    /\ resolveOut.tag = "return"
    /\ staticFault = "throws"
    /\ "anthropic" \in badProviders
    /\ dbFault = "queryThrows"
    /\ hasPDFAttachment(resolveIn.message)
    /\ resolveIn.modelId = UuidGrok2

\* C2: without a PDF attachment, a UUID that is no static tag and matches a
\* persisted provider/model row resolves to the handle the Provider Registry
\* builds from (the row's provider slug, the row's provider-native model id).
C2_UuidResolvesThroughRegistry ==
    ( /\ resolveOut # Idle
      /\ ~hasPDFAttachment(resolveIn.message)
      /\ resolveIn.modelId \in DOMAIN ProviderModelRows
      /\ resolveIn.modelId \notin DOMAIN languageModels
      /\ dbFault = "none" )
    => LET row == ProviderModelRows[resolveIn.modelId]
       IN  resolveOut.handle =
              getProviderModel(ProviderRows[row.providerId].slug, row.modelId).handle

\* C3: the PDF rule comes first: with a PDF attachment the result is the
\* document provider's handle whatever the identifier, and neither the static
\* lookup nor the database query is performed; only when that step fails
\* (the constructor throws) does resolution go on to the later steps.
C3_PdfFirst ==
    ( resolveOut # Idle /\ hasPDFAttachment(resolveIn.message) )
    => IF Construct("anthropic", PdfModelId).tag = "return"
       THEN /\ resolveOut.handle = Handle("anthropic", PdfModelId)
            /\ resolveOut.did = <<"pdf">>
       ELSE /\ Len(resolveOut.did) > 1
            /\ resolveOut.did[1] = "pdf"
            /\ resolveOut.did[2] = "static"
            /\ resolveOut.handle = DynamicStep(resolveIn.modelId).handle

\* a PDF message resolved to the document model although its identifier
\* names a persisted row
C3_Witness ==
    /\ resolveOut.tag = "return"
    /\ hasPDFAttachment(resolveIn.message)
    /\ resolveIn.modelId = UuidGrok2
    /\ staticFault = "none"
    /\ resolveOut.handle = Handle("anthropic", PdfModelId)
    /\ resolveOut.did = <<"pdf">>

\* C4: getProviderModel is total: a slug of the provider table gives the
\* constructor's result for modelId; an unknown slug, or a constructor that
\* throws, gives the default handle; it never throws and the table is unchanged.
C4_RegistryTotal ==
    /\ providerSDKs = SdkSlugs
    /\ lookupOut # NotCalled =>
          /\ lookupOut.tag = "return"
          /\ lookupOut.handle =
                IF /\ lookupIn.providerSlug \in SdkSlugs
                   /\ Construct(lookupIn.providerSlug, lookupIn.modelId).tag = "return"
                THEN Handle(lookupIn.providerSlug, lookupIn.modelId)
                ELSE DefaultHandle

\* a lookup whose constructor threw and that returned the default
C4_Witness ==
    /\ lookupOut.tag = "return"
    /\ lookupIn.providerSlug = "xai"
    /\ "xai" \in badProviders
    /\ lookupOut.handle = DefaultHandle

----------------------------------------------------------------------------
(* Properties of single requests, under SpecSequential                     *)

ReasoningTags == {"chat-model-reasoning", "openai-reasoning", "xai-grok3-mini"}

\* C5: for every accepted POST the active tools passed to the model call are
\* empty exactly when selectedChatModel is one of the three reasoning tags;
\* for every other identifier, static tag or UUID, they are the full fixed set.
C5_ActiveTools ==
    \A r \in DOMAIN reqs :
       (reqs[r].kind = "POST" /\ reqs[r].pc = "streaming") =>
          /\ reqs[r].call.activeTools = {} <=>
                reqs[r].call.selectedChatModel \in ReasoningTags
          /\ reqs[r].call.selectedChatModel \notin ReasoningTags =>
                reqs[r].call.activeTools =
                   {"getWeather", "createDocument", "updateDocument",
                    "requestSuggestions", "braveSearch"}

\* one model call for the last reasoning tag, without tools
C5_Witness ==
    \E r \in DOMAIN reqs :
       /\ reqs[r].kind = "POST" /\ reqs[r].pc = "streaming"
       /\ reqs[r].call.selectedChatModel = "xai-grok3-mini"
       /\ reqs[r].call.activeTools = {}

\* the latest request has been answered and nothing else is running, so the
\* rows are those its handler read
LastAnswered(kinds) ==
    /\ Len(reqs) > 0
    /\ reqs[Len(reqs)].kind \in kinds
    /\ reqs[Len(reqs)].pc = "done"

\* the chat a request names is private and belongs to somebody else
ForeignPrivate(req) ==
    /\ req.user \in Users
    /\ req.chatId \in ChatIds
    /\ chats[req.chatId].exists
    /\ chats[req.chatId].visibility = "private"
    /\ chats[req.chatId].userId # req.user

\* what a handler read was a private chat of somebody else
SawForeignPrivate(req) ==
    /\ req.saw.exists
    /\ req.saw.visibility = "private"
    /\ req.saw.userId # req.user

\* C8 as stated: for every private chat and every authenticated user who is
\* not its owner, GET and DELETE return 403 and the chat is neither streamed
\* nor deleted; for a public chat GET is never answered 403.
C8_NonOwner403 ==
    /\ ( LastAnswered({"GET", "DELETE"}) /\ ForeignPrivate(reqs[Len(reqs)]) )
          => /\ reqs[Len(reqs)].status = 403
             /\ reqs[Len(reqs)].log = <<>>
    /\ \A r \in DOMAIN reqs :
          (reqs[r].kind = "GET" /\ reqs[r].saw.exists /\ reqs[r].saw.visibility = "public")
             => reqs[r].status # 403

\* C8 amended: a GET is answered 204 without a body, before the chat is
\* read, when there is no stream context; otherwise a GET, and always a
\* DELETE, by an authenticated user who does not own the private chat is
\* answered 403; in no case is the chat streamed or deleted; a GET that read
\* a public chat is never answered 403.
C8_NonOwner403Or204 ==
    /\ ( LastAnswered({"GET", "DELETE"}) /\ ForeignPrivate(reqs[Len(reqs)]) )
          => /\ reqs[Len(reqs)].status =
                   IF reqs[Len(reqs)].kind = "GET" /\ globalStreamContext = "null"
                   THEN 204 ELSE 403
             /\ reqs[Len(reqs)].log = <<>>
             /\ reqs[Len(reqs)].body \in {"none", "text"}
    /\ \A r \in DOMAIN reqs :
          /\ (reqs[r].kind \in {"GET", "DELETE"} /\ SawForeignPrivate(reqs[r]))
                => /\ reqs[r].status = 403
                   /\ reqs[r].log = <<>>
          /\ (reqs[r].kind = "GET" /\ reqs[r].status = 204)
                => /\ globalStreamContext = "null"
                   /\ ~reqs[r].saw.exists
                   /\ reqs[r].body = "none"
                   /\ reqs[r].log = <<>>
          /\ (reqs[r].kind = "GET" /\ reqs[r].saw.exists
                                   /\ reqs[r].saw.visibility = "public")
                => reqs[r].status # 403

\* bob asked to resume alice's private chat and was refused
C8_Witness ==
    /\ LastAnswered({"GET"})
    /\ ForeignPrivate(reqs[Len(reqs)])
    /\ SawForeignPrivate(reqs[Len(reqs)])
    /\ globalStreamContext = "context"
    /\ reqs[Len(reqs)].status = 403

\* C9: when the stream store reports no stream for the latest stream id, the
\* answer is 200 with one append-message event carrying the chat's most
\* recent message if that message is an assistant's and was created at most
\* 15 seconds before the request was received; it is an empty 200 stream if
\* the message is older, is not an assistant's, or there is none.
C9_GraceWindow ==
    ( LastAnswered({"GET"}) /\ reqs[Len(reqs)].log = <<"noStream">> )
    => LET req  == reqs[Len(reqs)]
           msgs == getMessagesByChatId(req.chatId)
           mostRecentMessage == msgs[Len(msgs)]
       IN  /\ req.status = 200
           /\ IF /\ Len(msgs) > 0
                 /\ mostRecentMessage.role = "assistant"
                 /\ req.at - mostRecentMessage.createdAt
                       <= GraceSeconds * TicksPerSecond
              THEN /\ req.body = "append-message"
                   /\ req.msg = mostRecentMessage
              ELSE /\ req.body = "empty"
                   /\ req.msg = NoMessage

----------------------------------------------------------------------------
(* Properties of requests that interleave, under Spec                      *)

Count(log, what) == Cardinality({ i \in DOMAIN log : log[i] = what })

\* every what in the log comes before every later
Before(log, what, later) ==
    \A i, j \in DOMAIN log : (log[i] = what /\ log[j] = later) => i < j

\* the rows a request wrote
ChatsBy(r) == { c \in ChatIds : chats[c].exists /\ chats[c].by = r }

MessagesBy(r) == { i \in DOMAIN messages : messages[i].by = r }

StreamsBy(r) == { i \in DOMAIN streams : streams[i].streamId = r }

\* C6: a POST of an authenticated user whose message count of the last 24
\* hours exceeds the maxMessagesPerDay of the user's type is answered 429 and
\* has no further effect: it creates no Chat row, persists no Message,
\* creates no Stream Record and does not invoke the model.
C6_OverQuota ==
    \A r \in DOMAIN reqs :
       ( /\ reqs[r].kind = "POST"
         /\ reqs[r].user \in Users
         /\ reqs[r].messageCount >
               (IF UserType[reqs[r].user] = "guest"
                THEN GuestMaxMessagesPerDay ELSE RegularMaxMessagesPerDay) )
       => /\ reqs[r].status = 429
          /\ reqs[r].pc = "done"
          /\ reqs[r].log = <<>>
          /\ reqs[r].call = NoCall
          /\ ChatsBy(r) = {}
          /\ MessagesBy(r) = {}
          /\ StreamsBy(r) = {}

\* a guest at the limit posted once more, and the next POST was refused
C6_Witness ==
    \E r \in DOMAIN reqs :
       /\ reqs[r].kind = "POST"
       /\ reqs[r].user = "alice"
       /\ reqs[r].messageCount = GuestMaxMessagesPerDay + 1
       /\ reqs[r].status = 429
       /\ \E q \in DOMAIN reqs :
             /\ q < r
             /\ reqs[q].kind = "POST" /\ reqs[q].user = "alice"
             /\ reqs[q].messageCount = GuestMaxMessagesPerDay
             /\ reqs[q].status = 200

\* a POST that reached the model call
Accepted(req) == req.kind = "POST" /\ req.status = 200

\* C7: an accepted POST for a chat id not yet present creates exactly one
\* Chat row, owned by the session user and with the requested visibility,
\* and persists exactly one user Message for that chat, both before the
\* model is resolved and invoked; an accepted POST for a chat that is present
\* and owned by the requester creates no Chat row.
C7_WritesBeforeModel ==
    /\ \A r \in DOMAIN reqs :
          Accepted(reqs[r]) =>
             /\ Count(reqs[r].log, "saveChat") = IF reqs[r].saw.exists THEN 0 ELSE 1
             /\ reqs[r].saw.exists => reqs[r].saw.userId = reqs[r].user
             /\ Count(reqs[r].log, "saveUserMessage") = 1
             /\ Count(reqs[r].log, "getModelForChat") = 1
             /\ Count(reqs[r].log, "streamText") = 1
             /\ Before(reqs[r].log, "saveChat", "getModelForChat")
             /\ Before(reqs[r].log, "saveUserMessage", "getModelForChat")
             /\ Before(reqs[r].log, "getModelForChat", "streamText")
    /\ \A c \in ChatIds :
          chats[c].exists =>
             /\ chats[c].by \in DOMAIN reqs
             /\ reqs[chats[c].by].kind = "POST"
             /\ reqs[chats[c].by].chatId = c
             /\ Count(reqs[chats[c].by].log, "saveChat") = 1
             /\ chats[c].userId = reqs[chats[c].by].user
             /\ chats[c].visibility = reqs[chats[c].by].visibility
    /\ \A r \in DOMAIN reqs :
          /\ Cardinality({ i \in MessagesBy(r) : messages[i].role = "user" })
                <= Count(reqs[r].log, "saveUserMessage")
          /\ \A i \in MessagesBy(r) : messages[i].chatId = reqs[r].chatId

\* one POST created a public chat and saved its message, a second POST of
\* the owner found the chat and saved only a message
C7_Witness ==
    \E q, r \in DOMAIN reqs :
       /\ Accepted(reqs[q]) /\ Accepted(reqs[r])
       /\ ~reqs[q].saw.exists
       /\ ChatsBy(q) = {reqs[q].chatId}
       /\ chats[reqs[q].chatId].visibility = "public"
       /\ reqs[r].saw.exists /\ reqs[r].saw.by = q
       /\ Count(reqs[r].log, "saveChat") = 0
       /\ Cardinality(MessagesBy(r)) >= 1

\* C10: once a call to getStreamContext has found the connection string
\* absent or a placeholder, or construction has failed, the singleton stays
\* unset and no later call checks the configuration or attempts
\* construction again.
C10_DisabledForLifetime ==
    [][ (ctxChecks >= 1 /\ globalStreamContext = "null")
          => /\ globalStreamContext' = "null"
             /\ ctxChecks' = ctxChecks
             /\ ctxConstructs' = ctxConstructs ]_vars

\* the calls of getStreamContext made so far: one by every GET, one by every
\* POST that reached its response
CtxCalls ==
    Cardinality({ r \in DOMAIN reqs :
                     \/ reqs[r].kind = "GET"
                     \/ reqs[r].kind = "POST" /\ Count(reqs[r].log, "streamText") = 1 })

\* C11: the stream context is constructed at most once per process: however
\* POST and GET requests interleave, createResumableStreamContext has
\* succeeded at most once, and once the singleton is set every later
\* getStreamContext call leaves it as it is and constructs nothing.
C11_ConstructedOnce ==
    /\ [](globalStreamContext = "context" => ctxConstructs = 1)
    /\ [](ConstructionSucceeds => ctxConstructs <= 1)
    /\ [][ globalStreamContext # "null"
             => /\ globalStreamContext' = globalStreamContext
                /\ ctxConstructs' = ctxConstructs
                /\ ctxChecks' = ctxChecks ]_vars

\* two or more calls of getStreamContext, one construction
C11_Witness ==
    /\ globalStreamContext = "context"
    /\ ctxConstructs = 1
    /\ CtxCalls >= 2

\* C12 as stated: a GET without chatId is answered 400 and a GET with a
\* chatId but without a session is answered 401, whether resumable streaming
\* is enabled or disabled; no unauthenticated GET is answered 2xx.
C12_GetRejects ==
    \A r \in DOMAIN reqs :
       reqs[r].kind = "GET" =>
          /\ reqs[r].chatId = NoId => reqs[r].status = 400
          /\ (reqs[r].chatId # NoId /\ reqs[r].user = Anonymous)
                => reqs[r].status = 401
          /\ reqs[r].user = Anonymous => reqs[r].status \notin 200..299

\* C12 amended: with a stream context, a GET without chatId is answered 400,
\* one with a chatId and without a session 401, and no unauthenticated GET
\* is answered 2xx; without a stream context every GET is answered 204 with
\* no body, before its parameter and session are looked at, and nothing of
\* any chat is read or sent.
C12_GetRejectsOr204 ==
    \A r \in DOMAIN reqs :
       reqs[r].kind = "GET" =>
          IF globalStreamContext = "null"
          THEN /\ reqs[r].status = 204
               /\ reqs[r].body = "none"
               /\ reqs[r].log = <<>>
               /\ ~reqs[r].saw.exists
          ELSE /\ reqs[r].chatId = NoId => reqs[r].status = 400
               /\ (reqs[r].chatId # NoId /\ reqs[r].user = Anonymous)
                     => reqs[r].status = 401
               /\ reqs[r].user = Anonymous => reqs[r].status \in {400, 401}

\* with a stream context, a GET for a chat without a session was refused
C12_Witness ==
    \E r \in DOMAIN reqs :
       /\ reqs[r].kind = "GET"
       /\ globalStreamContext = "context"
       /\ reqs[r].chatId \in ChatIds
       /\ reqs[r].user = Anonymous
       /\ reqs[r].status = 401

----------------------------------------------------------------------------
(* Properties of the stream records, under SpecHistory                      *)

StreamIdsOf(rows) == { rows[i].streamId : i \in DOMAIN rows }

\* request r appends to its log in this step
Logs(r, what) == Count(reqs'[r].log, what) > Count(reqs[r].log, what)

\* C13: Stream Records are append-only and the last one is authoritative:
\* every accepted POST appends exactly one Stream Record, with a fresh id and
\* for its chat, before the model is invoked and whether or not resumable
\* streaming is enabled; no step of a POST or GET removes or alters a Stream
\* Record; a GET resumes with the most recently created Stream Record of
\* its chat and is answered 404 when the chat has none.
C13_StreamRecords ==
    /\ [](\A r \in DOMAIN reqs :
            Accepted(reqs[r]) =>
               /\ Count(reqs[r].log, "createStreamId") = 1
               /\ Before(reqs[r].log, "createStreamId", "getModelForChat")
               /\ Before(reqs[r].log, "createStreamId", "streamText"))
    /\ [](\A i, j \in DOMAIN streams :
            streams[i].streamId = streams[j].streamId => i = j)
    /\ [][ \A r \in DOMAIN reqs :
             /\ Logs(r, "createStreamId") =>
                   /\ reqs'[r].sid \notin StreamIdsOf(streams)
                   /\ streams' = Append(streams,
                                   [streamId |-> reqs'[r].sid, chatId |-> reqs[r].chatId])
             /\ ~Logs(r, "deleteChat") \/ reqs[r].kind = "DELETE"
             /\ (reqs[r].kind = "GET" /\ reqs[r].pc = "getStreamIds"
                                      /\ reqs'[r].pc # "getStreamIds") =>
                   LET mine == { i \in DOMAIN streams :
                                    streams[i].chatId = reqs[r].chatId }
                   IN  IF mine = {}
                       THEN reqs'[r].status = 404
                       ELSE /\ reqs'[r].pc = "resume"
                            /\ \E i \in mine :
                                  /\ \A j \in mine : j <= i
                                  /\ reqs'[r].sid = streams[i].streamId ]_vars
    /\ [][ (\A r \in DOMAIN reqs : ~Logs(r, "deleteChat")) =>
             /\ Len(streams') >= Len(streams)
             /\ \A i \in DOMAIN streams : streams'[i] = streams[i] ]_vars

\* a GET took the record of a POST of this process, not the earlier one
C13_Witness ==
    /\ Len(streams) = 2
    /\ \E r \in DOMAIN reqs :
          /\ reqs[r].kind = "GET"
          /\ reqs[r].pc \in {"resume", "getMessages"}
          /\ reqs[r].sid = streams[2].streamId
          /\ streams[1].streamId = EarlierStream
          /\ streams[2].chatId = reqs[r].chatId

----------------------------------------------------------------------------
(* Properties of a resumed stream, under SpecResume                         *)

\* a GET that joined the live stream of the latest stream id
Resumed(g) == reqs[g].kind = "GET" /\ reqs[g].body = "resumed"

\* the POST whose source feeds the stream g joined
Origin(g) == store[reqs[g].sid].source

----------------------------------------------------------------------------
(* Properties of the end of a stream, under SpecStream                      *)

\* the assistant rows request r wrote
AssistantRowsBy(r) == { i \in MessagesBy(r) : messages[i].role = "assistant" }

\* the assistant entries of an output
AssistantEntries(output) == { i \in DOMAIN output : output[i].role = "assistant" }

\* C15: on stream completion at most one assistant Message is persisted for
\* the request, in the request's chat and under the id of the last
\* assistant entry of the output; when the output holds no assistant entry,
\* or the save fails, nothing is persisted, and the response keeps its
\* status and stays the stream it was.
C15_OnFinish ==
    \A r \in DOMAIN reqs :
       reqs[r].kind = "POST" =>
          /\ Cardinality(AssistantRowsBy(r)) <= 1
          /\ Count(reqs[r].log, "saveAssistantMessage") <= 1
          /\ \A i \in AssistantRowsBy(r) :
                /\ messages[i].chatId = reqs[r].chatId
                /\ AssistantEntries(reqs[r].output) # {}
                /\ \E e \in AssistantEntries(reqs[r].output) :
                      /\ \A f \in AssistantEntries(reqs[r].output) : f <= e
                      /\ messages[i].id = reqs[r].output[e].id
          /\ ( \/ AssistantEntries(reqs[r].output) = {}
               \/ Count(reqs[r].log, "saveAssistantMessage") = 0 )
                => AssistantRowsBy(r) = {}
          /\ (reqs[r].pc = "done" /\ Count(reqs[r].log, "streamText") = 1)
                => /\ reqs[r].status = 200
                   /\ reqs[r].body = "stream"

\* one stream ended with its assistant message saved under the id of the
\* last assistant entry, another ended without an assistant entry in its
\* output and saved nothing
C15_Witness ==
    \E q, r \in DOMAIN reqs :
       /\ Cardinality(AssistantRowsBy(q)) = 1
       /\ \A i \in AssistantRowsBy(q) : messages[i].id = MessageId(q, 3)
       /\ reqs[r].kind = "POST" /\ reqs[r].pc = "done"
       /\ reqs[r].status = 200
       /\ AssistantEntries(reqs[r].output) = {}
       /\ AssistantRowsBy(r) = {}

\* C16: an error raised inside the execution callback reaches the client as
\* the one fixed generic message on the stream: whichever error is raised,
\* the step that delivers it delivers the same text, never the text of the
\* error, and leaves the status and the body of the response already
\* started as they were.
C16_GenericError ==
    /\ [] (\A r \in DOMAIN reqs :
              reqs[r].errorPart \in {NoError, "Oops, an error occurred!"})
    /\ [][ \A r \in DOMAIN reqs :
              (r \in DOMAIN reqs' /\ reqs'[r].errorPart # reqs[r].errorPart)
                 => /\ reqs'[r].errorPart = "Oops, an error occurred!"
                    /\ reqs'[r].errorPart \notin ExecuteErrors
                    /\ reqs[r].status = 200
                    /\ reqs'[r].status = reqs[r].status
                    /\ reqs'[r].body = reqs[r].body
                    /\ messages' = messages ]_vars

\* two streams failed and both clients hold the generic text on a 200
C16_Witness ==
    \E q, r \in DOMAIN reqs :
       /\ q # r
       /\ reqs[q].errorPart = "Oops, an error occurred!"
       /\ reqs[r].errorPart = reqs[q].errorPart
       /\ reqs[q].status = 200 /\ reqs[r].status = 200

----------------------------------------------------------------------------
(* Properties of DELETE, under SpecSequential                               *)

\* C17: a DELETE without an id is answered 404, one without a session 401,
\* one for a chat that does not exist 404, one by a non-owner 403; only the
\* owner's request deletes the chat and is answered 200; a DELETE that
\* found its chat or found none is never answered 500.
C17_DeleteTaxonomy ==
    \A r \in DOMAIN reqs :
       (reqs[r].kind = "DELETE" /\ reqs[r].pc = "done") =>
          LET req == reqs[r]
          IN  /\ req.chatId = NoId => req.status = 404
              /\ (req.chatId # NoId /\ req.user = Anonymous) => req.status = 401
              /\ (req.chatId # NoId /\ req.user # Anonymous /\ ~req.saw.exists)
                    => req.status = 404
              /\ ( /\ req.chatId # NoId /\ req.user # Anonymous
                   /\ req.saw.exists /\ req.saw.userId # req.user )
                    => req.status = 403
              /\ req.status = 200
                    => /\ req.saw.exists /\ req.saw.userId = req.user
                       /\ Count(req.log, "deleteChat") = 1
              /\ Count(req.log, "deleteChat") = 1 => req.status = 200

----------------------------------------------------------------------------
(* Properties of the request-body validation, under SpecSchema              *)

Validated == parseOut # NotParsed

Rejected == parseOut = Invalid400

AttachmentsOf(body) ==
    IF body.message.hasAttachments
    THEN { body.message.experimental_attachments[i] :
              i \in DOMAIN body.message.experimental_attachments }
    ELSE {}

PartsOf(body) == { body.message.parts[i] : i \in DOMAIN body.message.parts }

\* the bodies the validation is bound to reject
ListedReject(body) ==
    \/ body.message.content.length = 0
    \/ body.message.content.length > 2000
    \/ body.message.role # "user"
    \/ \E p \in PartsOf(body) : p.text.length = 0 \/ p.text.length > 2000
    \/ \E a \in AttachmentsOf(body) :
          a.contentType \notin {"image/png", "image/jpg", "image/jpeg", "application/pdf"}
    \/ /\ body.selectedChatModel \notin EnumTags
       /\ body.selectedChatModel \notin Uuids

\* the constraints the interface description states for a body
Documented(body) ==
    /\ body.id \in Uuids
    /\ body.message.id \in Uuids
    /\ body.message.createdAt = IsoDate
    /\ body.message.role = "user"
    /\ body.message.content.length \in 1..2000
    /\ \A p \in PartsOf(body) : p.type = "text" /\ p.text.length \in 1..2000
    /\ \A a \in AttachmentsOf(body) :
          /\ a.url = GoodUrl
          /\ a.name.length <= 2000
          /\ a.contentType \in {"image/png", "image/jpg", "image/jpeg", "application/pdf"}
    /\ body.selectedChatModel \in EnumTags \cup Uuids
    /\ body.selectedVisibilityType \in {"public", "private"}

NamedAttachments(body) == \A a \in AttachmentsOf(body) : a.name.length >= 1

\* C18 as stated: the validation answers 400 to every body with empty or
\* over-long content, a role other than user, an empty or over-long text
\* part, an attachment type outside the fixed set or a model that is
\* neither a tag nor a UUID, and accepts every body that meets the
\* documented constraints.
C18_ExactlyDocumented ==
    Validated =>
       /\ ListedReject(json) => Rejected
       /\ Documented(json) => ~Rejected

\* C18, amended: the listed bodies are answered 400, and a body is accepted
\* exactly when it meets the documented constraints and every attachment
\* has a name of at least one character.
C18_DocumentedAndNamed ==
    Validated =>
       /\ ListedReject(json) => Rejected
       /\ ~Rejected <=> (Documented(json) /\ NamedAttachments(json))
       /\ ~Rejected => parseOut.requestBody.message.createdAt.valid

\* a body with an attachment was accepted
C18_Witness ==
    /\ Validated /\ ~Rejected
    /\ AttachmentsOf(json) # {}
    /\ json.message.parts # <<>>

----------------------------------------------------------------------------
(* Properties of the daily quota, under Spec                                *)

\* C19: whatever POST requests a user has made, one after another or at
\* the same time, the user messages persisted for that user in the last 24
\* hours never number more than the maxMessagesPerDay of the user's type.
C19_QuotaNeverExceeded ==
    \A u \in Users :
       getMessageCountByUserId(u)
          <= entitlementsByUserType[UserType[u]].maxMessagesPerDay

----------------------------------------------------------------------------
(* Properties of the refused POST, under SpecHistory                        *)

\* the POST requests answered 400, 401 or 403
Refused(rs) ==
    { r \in DOMAIN rs : rs[r].kind = "POST" /\ rs[r].status \in {400, 401, 403} }

\* C20: a POST answered 400, 401 or 403 writes nothing: the step that
\* answers it leaves every Chat row, Message and Stream Record as it was,
\* the request has written no row and has neither resolved nor invoked the
\* model; and a POST by a non-owner of an existing chat is answered 403
\* whether the chat is public or private.
C20_RefusedWritesNothing ==
    /\ [] (\A r \in Refused(reqs) :
              /\ reqs[r].log = <<>>
              /\ reqs[r].call = NoCall
              /\ ChatsBy(r) = {} /\ MessagesBy(r) = {} /\ StreamsBy(r) = {}
              /\ reqs[r].status = 403 =>
                    reqs[r].saw.exists /\ reqs[r].saw.userId # reqs[r].user)
    /\ [] (\A r \in DOMAIN reqs :
              ( /\ reqs[r].kind = "POST" /\ reqs[r].pc \notin {"getChat"}
                /\ reqs[r].status # 429
                /\ reqs[r].user # Anonymous
                /\ reqs[r].saw.exists /\ reqs[r].saw.userId # reqs[r].user )
                 => reqs[r].status = 403)
    /\ [][ Refused(reqs') # Refused(reqs)
              => /\ UNCHANGED <<dbVars, store, resolverVars>>
                 /\ Refused(reqs) \subseteq Refused(reqs') ]_vars

\* a POST by someone else to a public chat was answered 403
C20_Witness ==
    \E r \in Refused(reqs) :
       /\ reqs[r].status = 403
       /\ reqs[r].saw.visibility = "public"
       /\ reqs[r].saw.userId # reqs[r].user
       /\ chats[reqs[r].chatId].exists

----------------------------------------------------------------------------
(* Properties of POST interleaved with DELETE, under SpecStream             *)

\* the rows whose chat is not there
OrphanMessages == { i \in DOMAIN messages : ~chats[messages[i].chatId].exists }

OrphanStreams == { i \in DOMAIN streams : ~chats[streams[i].chatId].exists }

\* the requests that deleted chat c
Deleted(c) ==
    { d \in DOMAIN reqs : /\ reqs[d].kind = "DELETE" /\ reqs[d].chatId = c
                          /\ Count(reqs[d].log, "deleteChat") = 1 }

----------------------------------------------------------------------------
(* Properties of concurrent POST requests for one chat id, under SpecRace   *)

\* the requests that created a Chat row for c
Creators(c) ==
    { r \in DOMAIN reqs : /\ reqs[r].kind = "POST" /\ reqs[r].chatId = c
                          /\ Count(reqs[r].log, "saveChat") >= 1 }

\* the requests that wrote a Message or a Stream Record of c
Writers(c) ==
    { messages[i].by : i \in { j \in DOMAIN messages : messages[j].chatId = c } }
       \cup
    { streams[i].streamId : i \in { j \in DOMAIN streams : streams[j].chatId = c } }

============================================================================
